---------------------------- MODULE Spec2Model ----------------------------
(***************************************************************************)
(* A model of the pushdown-automaton engine of src/src/lib.rs: the Stack,  *)
(* the table-backed Movement lookup, AutomataBuilder::build, Automata::run *)
(* and the loop of Automata::complete, over a small alphabet.              *)
(***************************************************************************)
EXTENDS Naturals, Sequences, FiniteSets, TLC

\* Longest input word handed to build() in Spec.
MaxLen == 2
\* Longest input word handed to build() in SpecPair.
MaxLenPair == 1
\* Longest input word handed to build() in SpecAnBn.
MaxWord == 6
\* Longest sequence a Stack is made from in SpecStack.
MaxDepth == 3
\* push and pop calls made on one Stack in SpecStack.
MaxOps == 5
\* Longest initial stack given to AutomataBuilder::new.
MaxInit == 1
\* run() calls explored on one Automata beyond the length of its word.
RunSlack == 2

\* The value types of the tests: State, StackElement (A0 is the bottom
\* marker) and Vocab.
Q == {"Q0", "Q1"}
StackData == {"A0", "A"}
VocabElement == {"a", "b"}

\* Option<T>: None is the empty sequence, Some(x) the one-element sequence.
None == <<>>
Some(x) == <<x>>

\* The names of the variables of the caller that hold an Automata.
Runners == {"r1", "r2"}

SeqsUpTo(S, n) == UNION {[1..k -> S] : k \in 0..n}

\* The state: the builder; the Automata held by the caller's variables; where
\* each is (idle: held by the caller; loop: inside complete(); done:
\* complete() has returned); the local r and the return value of complete().
\* given and hist record the history: the arguments of AutomataBuilder::new,
\* and per Automata its whole word, the results of its run() calls, the
\* Automata as it was before the last run() and the number of run() calls
\* made before complete() was called.
\* stk is a Stack the caller makes and uses directly, log the sequence it
\* was made from and the push and pop calls made on it since, each with its
\* argument, what it returned and the stack it left.
VARIABLES builder, automata, pc, r, ret, given, hist, stk, log

vars == <<builder, automata, pc, r, ret, given, hist, stk, log>>

---------------------------------------------------------------------------
\* Stack

StackNew(data) == data

\* impl From<F: Into<Vec<T>>> for Stack<T>.
StackFrom(vec) == StackNew(vec)

push(st, e) == Append(st, e)

\* pop with self.0.last().cloned() for self.0.pop(): the top is returned and
\* stays on the stack.
pop_KeepTop(st) ==
  IF st = <<>>
  THEN [stack |-> st, item |-> None]
  ELSE [stack |-> st, item |-> Some(st[Len(st)])]

\* pop as a queue's: self.0.remove(0), the oldest symbol.
pop_Oldest(st) ==
  IF st = <<>>
  THEN [stack |-> st, item |-> None]
  ELSE [stack |-> Tail(st), item |-> Some(Head(st))]

\* pop: the stack that is left and the Option returned.
pop(st) ==
  IF st = <<>>
  THEN [stack |-> st, item |-> None]
  ELSE [stack |-> SubSeq(st, 1, Len(st) - 1), item |-> Some(st[Len(st)])]

\* next as a peek: the symbol is returned and stays in the word.
next_Peek(word) ==
  IF word = <<>>
  THEN [word |-> word, item |-> None]
  ELSE [word |-> word, item |-> Some(Head(word))]

\* Iterator::next of the word: the rest of the word and the Option returned.
next(word) ==
  IF word = <<>>
  THEN [word |-> word, item |-> None]
  ELSE [word |-> Tail(word), item |-> Some(Head(word))]

---------------------------------------------------------------------------
\* Movements: a HashMap from (Q, Option<VocabElement>, StackData) to
\* (Q, Vec<StackData>), a function whose DOMAIN is the set of keys present.

\* f that tries the key without a symbol when the key with the symbol is
\* not in the table.
f_FallBackToAbsent(movements, state, v, s) ==
  IF <<state, v, s>> \in DOMAIN movements
  THEN Some(movements[<<state, v, s>>])
  ELSE IF <<state, None, s>> \in DOMAIN movements
  THEN Some(movements[<<state, None, s>>])
  ELSE None

f(movements, state, v, s) ==
  IF <<state, v, s>> \in DOMAIN movements
  THEN Some(movements[<<state, v, s>>])
  ELSE None

\* The ruleset of test_an_bn_n_ge_1_v1.
RulesV1 ==
  (<<"Q0", Some("a"), "A0">> :> <<"Q0", <<"A">>>>) @@
  (<<"Q0", Some("a"), "A">> :> <<"Q0", <<"A", "A">>>>) @@
  (<<"Q0", Some("b"), "A">> :> <<"Q1", <<>>>>) @@
  (<<"Q1", Some("b"), "A">> :> <<"Q1", <<>>>>)

\* The ruleset of test_an_bn_n_ge_1_v2.
RulesV2 ==
  (<<"Q0", Some("a"), "A0">> :> <<"Q0", <<"A", "A0">>>>) @@
  (<<"Q0", Some("a"), "A">> :> <<"Q0", <<"A", "A">>>>) @@
  (<<"Q0", Some("b"), "A">> :> <<"Q1", <<>>>>) @@
  (<<"Q1", Some("b"), "A">> :> <<"Q1", <<>>>>) @@
  (<<"Q1", None, "A0">> :> <<"Q1", <<>>>>)

\* A ruleset with absent-symbol rules that keep (Q0) or grow (Q1) the stack.
RulesEps ==
  (<<"Q0", None, "A">> :> <<"Q0", <<"A">>>>) @@
  (<<"Q1", None, "A">> :> <<"Q1", <<"A", "A">>>>) @@
  (<<"Q0", Some("a"), "A">> :> <<"Q1", <<"A0", "A">>>>) @@
  (<<"Q0", Some("b"), "A0">> :> <<"Q0", <<>>>>)

\* A ruleset whose absent-symbol rules on A swap Q0 and Q1 and keep the
\* stack, and whose absent-symbol rule on A0 grows it.
RulesSpin ==
  (<<"Q0", None, "A">> :> <<"Q1", <<"A">>>>) @@
  (<<"Q1", None, "A">> :> <<"Q0", <<"A">>>>) @@
  (<<"Q0", None, "A0">> :> <<"Q0", <<"A0", "A0">>>>) @@
  (<<"Q0", Some("a"), "A">> :> <<"Q0", <<"A">>>>) @@
  (<<"Q1", Some("b"), "A0">> :> <<"Q1", <<>>>>)

\* HashMap::new() with nothing inserted.
RulesEmpty == <<>>

RuleSets == {RulesV1, RulesV2, RulesEps, RulesEmpty}

---------------------------------------------------------------------------
\* AutomataBuilder and Automata

AutomataBuilderNew(initial_state, initial_stack, movements) ==
  [state |-> initial_state, stack |-> StackNew(initial_stack),
   movements |-> movements]

AutomataNew(word, initial_state, initial_stack, movements) ==
  [state |-> initial_state, stack |-> StackNew(initial_stack),
   word |-> word, movements |-> movements]

\* build without self.stack.clone(): every Automata is handed the one stack
\* the Automata built before it are working on.
build_SharedStack(b, word) ==
  AutomataNew(word, b.state,
              IF automata = <<>>
              THEN b.stack
              ELSE automata[CHOOSE x \in DOMAIN automata : TRUE].stack,
              b.movements)

build(b, word) == AutomataNew(word, b.state, b.stack, b.movements)

\* The push loop without .rev(): for elem in new_stack.iter().
RECURSIVE PushRev_InOrder(_, _)
PushRev_InOrder(st, new_stack) ==
  IF new_stack = <<>>
  THEN st
  ELSE PushRev_InOrder(push(st, Head(new_stack)), Tail(new_stack))

\* for elem in new_stack.iter().rev() { self.stack.push(elem.clone()) }
RECURSIVE PushRev(_, _)
PushRev(st, new_stack) ==
  IF new_stack = <<>>
  THEN st
  ELSE PushRev(push(st, new_stack[Len(new_stack)]),
               SubSeq(new_stack, 1, Len(new_stack) - 1))

\* run with the first match arm (None, _): Accept as soon as the word ends.
run_AcceptAtEndOfInput(au) ==
  LET v == next(au.word)
      s == pop(au.stack)
      popped == [au EXCEPT !.word = v.word, !.stack = s.stack]
  IN  IF v.item = None
      THEN [self |-> popped, result |-> "Accept"]
      ELSE IF s.item # None
      THEN LET m == f(au.movements, au.state, v.item, s.item[1])
           IN  IF m # None
               THEN [self |-> [popped EXCEPT !.state = m[1][1],
                                 !.stack = PushRev(s.stack, m[1][2])],
                     result |-> "Processing"]
               ELSE [self |-> popped, result |-> "NotAccepting"]
      ELSE [self |-> popped, result |-> "NotAccepting"]

\* run with the first match arm (_, None): Accept as soon as the stack is
\* empty.
run_AcceptOnEmptyStack(au) ==
  LET v == next(au.word)
      s == pop(au.stack)
      popped == [au EXCEPT !.word = v.word, !.stack = s.stack]
  IN  IF s.item = None
      THEN [self |-> popped, result |-> "Accept"]
      ELSE LET m == f(au.movements, au.state, v.item, s.item[1])
           IN  IF m # None
               THEN [self |-> [popped EXCEPT !.state = m[1][1],
                                 !.stack = PushRev(s.stack, m[1][2])],
                     result |-> "Processing"]
               ELSE [self |-> popped, result |-> "NotAccepting"]

\* run whose else branch of the lookup returns Processing.
run_StuckProcessing(au) ==
  LET v == next(au.word)
      s == pop(au.stack)
      popped == [au EXCEPT !.word = v.word, !.stack = s.stack]
  IN  IF v.item = None /\ s.item = None
      THEN [self |-> popped, result |-> "Accept"]
      ELSE IF s.item # None
      THEN LET m == f(au.movements, au.state, v.item, s.item[1])
           IN  IF m # None
               THEN [self |-> [popped EXCEPT !.state = m[1][1],
                                 !.stack = PushRev(s.stack, m[1][2])],
                     result |-> "Processing"]
               ELSE [self |-> popped, result |-> "Processing"]
      ELSE [self |-> popped, result |-> "NotAccepting"]

\* run whose else branch of the lookup pushes the popped top back.
run_StuckPushBack(au) ==
  LET v == next(au.word)
      s == pop(au.stack)
      popped == [au EXCEPT !.word = v.word, !.stack = s.stack]
  IN  IF v.item = None /\ s.item = None
      THEN [self |-> popped, result |-> "Accept"]
      ELSE IF s.item # None
      THEN LET m == f(au.movements, au.state, v.item, s.item[1])
           IN  IF m # None
               THEN [self |-> [popped EXCEPT !.state = m[1][1],
                                 !.stack = PushRev(s.stack, m[1][2])],
                     result |-> "Processing"]
               ELSE [self |-> [popped EXCEPT !.stack = push(s.stack, s.item[1])],
                     result |-> "NotAccepting"]
      ELSE [self |-> popped, result |-> "NotAccepting"]

\* run that takes self.state (leaving the default, Q0) for the lookup and
\* assigns it only in the branch of a found rule.
run_TakeState(au) ==
  LET v == next(au.word)
      s == pop(au.stack)
      popped == [au EXCEPT !.word = v.word, !.stack = s.stack,
                           !.state = "Q0"]
  IN  IF v.item = None /\ s.item = None
      THEN [self |-> popped, result |-> "Accept"]
      ELSE IF s.item # None
      THEN LET m == f(au.movements, au.state, v.item, s.item[1])
           IN  IF m # None
               THEN [self |-> [popped EXCEPT !.state = m[1][1],
                                 !.stack = PushRev(s.stack, m[1][2])],
                     result |-> "Processing"]
               ELSE [self |-> popped, result |-> "NotAccepting"]
      ELSE [self |-> popped, result |-> "NotAccepting"]

\* Automata::run on the Automata au: the Automata it leaves and the result.
run(au) ==
  LET v == next(au.word)
      s == pop(au.stack)
      popped == [au EXCEPT !.word = v.word, !.stack = s.stack]
  IN  IF v.item = None /\ s.item = None
      THEN [self |-> popped, result |-> "Accept"]
      ELSE IF s.item # None
      THEN LET m == f(au.movements, au.state, v.item, s.item[1])
           IN  IF m # None
               THEN [self |-> [popped EXCEPT !.state = m[1][1],
                                 !.stack = PushRev(s.stack, m[1][2])],
                     result |-> "Processing"]
               ELSE [self |-> popped, result |-> "NotAccepting"]
      ELSE [self |-> popped, result |-> "NotAccepting"]

---------------------------------------------------------------------------
\* The initial states and the calls

\* fn with val at a, and fn without a.
Put(fn, a, val) == [x \in (DOMAIN fn) \cup {a} |-> IF x = a THEN val ELSE fn[x]]
Drop(fn, a) == [x \in (DOMAIN fn) \ {a} |-> fn[x]]

InitWith(rulesets) ==
  /\ \E q \in Q, st \in SeqsUpTo(StackData, MaxInit), m \in rulesets :
       /\ builder = AutomataBuilderNew(q, st, m)
       /\ given = [state |-> q, stack |-> st, movements |-> m]
  /\ automata = <<>>
  /\ pc = [a \in Runners |-> "none"]
  /\ r = <<>>
  /\ ret = <<>>
  /\ hist = <<>>
  /\ stk = StackFrom(<<>>)
  /\ log = [made |-> <<>>, ops |-> <<>>]

Init == InitWith(RuleSets)

\* The two tests' builders: AutomataBuilder::new(Q0, vec![A0], ruleset).
InitAnBn ==
  /\ \E m \in {RulesV1, RulesV2} :
       /\ builder = AutomataBuilderNew("Q0", <<"A0">>, m)
       /\ given = [state |-> "Q0", stack |-> <<"A0">>, movements |-> m]
  /\ automata = <<>>
  /\ pc = [a \in Runners |-> "none"]
  /\ r = <<>>
  /\ ret = <<>>
  /\ hist = <<>>
  /\ stk = StackFrom(<<>>)
  /\ log = [made |-> <<>>, ops |-> <<>>]

\* let x = builder.build(word), x a variable of the caller (who is not
\* inside x.complete()).
Build(a, word) ==
  /\ pc[a] # "loop"
  /\ automata' = Put(automata, a, build(builder, word))
  /\ pc' = [pc EXCEPT ![a] = "idle"]
  /\ r' = Drop(r, a)
  /\ ret' = Drop(ret, a)
  /\ hist' = Put(hist, a, [input |-> word, verdicts |-> <<>>,
                           before |-> None, from |-> None])
  /\ UNCHANGED <<stk, log, builder, given>>

MayRun(a) == Len(hist[a].verdicts) < Len(hist[a].input) + RunSlack

Ran(h, au, result) ==
  [h EXCEPT !.verdicts = Append(@, result), !.before = Some(au)]

\* x.run() on an Automata whose stack is the builder's own (no clone): the
\* pops and pushes land in the builder too.
Run_OnTemplate(a) ==
  /\ pc[a] = "idle"
  /\ MayRun(a)
  /\ LET o == run(automata[a])
     IN  /\ automata' = [automata EXCEPT ![a] = o.self]
         /\ hist' = [hist EXCEPT ![a] = Ran(@, automata[a], o.result)]
         /\ builder' = [builder EXCEPT !.stack = o.self.stack]
  /\ UNCHANGED <<stk, log, pc, r, ret, given>>

\* x.run() when all Automata hold one stack: the pops and pushes show in all.
Run_Aliased(a) ==
  /\ pc[a] = "idle"
  /\ MayRun(a)
  /\ LET o == run(automata[a])
     IN  /\ automata' = [x \in DOMAIN automata |->
                           IF x = a THEN o.self
                           ELSE [automata[x] EXCEPT !.stack = o.self.stack]]
         /\ hist' = [hist EXCEPT ![a] = Ran(@, automata[a], o.result)]
  /\ UNCHANGED <<stk, log, builder, pc, r, ret, given>>

\* x.run(), called by the caller.
Run(a) ==
  /\ pc[a] = "idle"
  /\ MayRun(a)
  /\ LET o == run(automata[a])
     IN  /\ automata' = [automata EXCEPT ![a] = o.self]
         /\ hist' = [hist EXCEPT ![a] = Ran(@, automata[a], o.result)]
  /\ UNCHANGED <<stk, log, builder, pc, r, ret, given>>

\* The loop as while r != Accept { r = self.run() }.
CompleteLoop_UntilAccept(a) ==
  /\ pc[a] = "loop"
  /\ r[a] # "Accept"
  /\ MayRun(a)
  /\ LET o == run(automata[a])
     IN  /\ automata' = [automata EXCEPT ![a] = o.self]
         /\ r' = [r EXCEPT ![a] = o.result]
         /\ hist' = [hist EXCEPT ![a] = Ran(@, automata[a], o.result)]
  /\ UNCHANGED <<stk, log, builder, pc, ret, given>>

\* x.complete() is called: let mut r = AutomataResult::Processing.
CompleteCall(a) ==
  /\ pc[a] = "idle"
  /\ pc' = [pc EXCEPT ![a] = "loop"]
  /\ r' = Put(r, a, "Processing")
  /\ hist' = [hist EXCEPT ![a].from = Some(Len(hist[a].verdicts))]
  /\ UNCHANGED <<stk, log, builder, automata, ret, given>>

\* while r == Processing { r = self.run() }
CompleteLoop(a) ==
  /\ pc[a] = "loop"
  /\ r[a] = "Processing"
  /\ MayRun(a)
  /\ LET o == run(automata[a])
     IN  /\ automata' = [automata EXCEPT ![a] = o.self]
         /\ r' = [r EXCEPT ![a] = o.result]
         /\ hist' = [hist EXCEPT ![a] = Ran(@, automata[a], o.result)]
  /\ UNCHANGED <<stk, log, builder, pc, ret, given>>

\* r == AutomataResult::Accept is returned and self is dropped.
CompleteReturn(a) ==
  /\ pc[a] = "loop"
  /\ r[a] # "Processing"
  /\ pc' = [pc EXCEPT ![a] = "done"]
  /\ ret' = Put(ret, a, r[a] = "Accept")
  /\ r' = Drop(r, a)
  /\ automata' = Drop(automata, a)
  /\ UNCHANGED <<stk, log, builder, given, hist>>

\* One Automata at a time, words up to MaxLen.
Next ==
  \/ \E w \in SeqsUpTo(VocabElement, MaxLen) : Build("r1", w)
  \/ Run("r1")
  \/ CompleteCall("r1")
  \/ CompleteLoop("r1")
  \/ CompleteReturn("r1")

Spec == Init /\ [][Next]_vars

\* Two Automata of one builder, their calls interleaved.
NextPair ==
  \/ \E a \in Runners, w \in SeqsUpTo(VocabElement, MaxLenPair) : Build(a, w)
  \/ \E a \in Runners : Run(a)
  \/ \E a \in Runners : CompleteCall(a)
  \/ \E a \in Runners : CompleteLoop(a)
  \/ \E a \in Runners : CompleteReturn(a)

InitPair == InitWith({RulesV2, RulesEps})

SpecPair == InitPair /\ [][NextPair]_vars

\* The builders of the two tests, words up to MaxWord.
NextAnBn ==
  \/ \E w \in SeqsUpTo(VocabElement, MaxWord) : Build("r1", w)
  \/ Run("r1")
  \/ CompleteCall("r1")
  \/ CompleteLoop("r1")
  \/ CompleteReturn("r1")

SpecAnBn == InitAnBn /\ [][NextAnBn]_vars

---------------------------------------------------------------------------
\* What an Automata built from the builder as constructed does when it is
\* run alone: the Automata after n run() calls on build(w) and the results
\* of those calls.

GivenBuilder == AutomataBuilderNew(given.state, given.stack, given.movements)

RECURSIVE Alone(_, _)
Alone(w, n) ==
  IF n = 0
  THEN [self |-> build(GivenBuilder, w), results |-> <<>>]
  ELSE LET p == Alone(w, n - 1)
           o == run(p.self)
       IN  [self |-> o.self, results |-> Append(p.results, o.result)]

Exhausted(au) == au.word = <<>> /\ au.stack = <<>>

Last(sq) == sq[Len(sq)]

\* w = a^n b^n for some n >= 1.
IsAnBn(w) ==
  \E n \in 1..Len(w) :
    /\ Len(w) = 2 * n
    /\ \A k \in 1..n : w[k] = "a" /\ w[n + k] = "b"

\* The Automata a has made a run() call; Before(a) is the Automata as that
\* call found it.
HasRun(a) == a \in DOMAIN hist /\ hist[a].before # None
Before(a) == hist[a].before[1]

\* The key the last run() call of a looked up, when it had a stack top.
LastKey(a) ==
  <<Before(a).state, next(Before(a).word).item, Last(Before(a).stack)>>

---------------------------------------------------------------------------
\* C1

\* C1 as stated: complete() returns true iff after some number of run()
\* steps (whatever they returned) the input cursor and the stack are both
\* empty.
C1_AsStated ==
  \A a \in DOMAIN ret :
    ret[a] <=>
      \E n \in hist[a].from[1]..(Len(hist[a].input) + RunSlack) :
        Exhausted(Alone(hist[a].input, n).self)

\* C1, amended: complete() returns true iff after some number of run()
\* steps that all returned Processing the input cursor and the stack are
\* both empty.
C1_CompleteIffExhaustedWhileProcessing ==
  \A a \in DOMAIN ret :
    ret[a] <=>
      \E n \in hist[a].from[1]..(Len(hist[a].input) + RunSlack) :
        LET c == Alone(hist[a].input, n)
        IN  /\ \A k \in (hist[a].from[1] + 1)..n : c.results[k] = "Processing"
            /\ Exhausted(c.self)

\* complete() has returned true on a word of two symbols, after run() calls
\* that returned Processing.
C1_Witness ==
  \E a \in DOMAIN ret :
    /\ ret[a]
    /\ Len(hist[a].input) = 2
    /\ hist[a].from = Some(0)
    /\ Len(hist[a].verdicts) >= 3

---------------------------------------------------------------------------
\* C2

\* C2: a run() call returns Accept iff it finds the remaining input and the
\* stack both empty; so the first run() of an Automata built with an empty
\* initial stack and an empty word returns Accept.
C2_AcceptIffBothEmpty ==
  \A a \in DOMAIN hist :
    /\ HasRun(a) =>
         (Last(hist[a].verdicts) = "Accept" <=> Exhausted(Before(a)))
    /\ (given.stack = <<>> /\ hist[a].input = <<>> /\ hist[a].verdicts # <<>>)
         => hist[a].verdicts[1] = "Accept"

\* A run() call has returned Accept after the word was read.
C2_Witness ==
  \E a \in DOMAIN hist :
    /\ HasRun(a)
    /\ Last(hist[a].verdicts) = "Accept"
    /\ hist[a].input # <<>>
    /\ pc[a] = "idle"

---------------------------------------------------------------------------
\* C3, C4

\* complete() called on build(w) with nothing run before has returned.
Completed(a) == a \in DOMAIN ret /\ hist[a].from = Some(0)

\* complete() on build(w) is over after Len(w) + 2 run() calls.
LoopOver(a) ==
  (pc[a] = "loop" /\ hist[a].from = Some(0)
     /\ Len(hist[a].verdicts) >= Len(hist[a].input) + 2)
    => r[a] # "Processing"

\* C3: with the ruleset of the first test, initial state Q0 and initial
\* stack [A0], build(w).complete() returns, and returns true exactly for
\* w = a^n b^n, n >= 1.
C3_V1AcceptsAnBn ==
  given.movements = RulesV1 =>
    \A a \in Runners :
      /\ Completed(a) => (ret[a] <=> IsAnBn(hist[a].input))
      /\ LoopOver(a)

\* build("aaabbb").complete() has returned true.
C3_Witness ==
  /\ given.movements = RulesV1
  /\ \E a \in Runners :
       /\ Completed(a)
       /\ hist[a].input = <<"a", "a", "a", "b", "b", "b">>
       /\ ret[a]

\* C4: with the ruleset of the second test, whose absent-symbol rule pops
\* the bottom marker A0 once the input has ended, build(w).complete()
\* returns, and returns true exactly for w = a^n b^n, n >= 1.
C4_V2AcceptsAnBn ==
  given.movements = RulesV2 =>
    \A a \in Runners :
      /\ Completed(a) => (ret[a] <=> IsAnBn(hist[a].input))
      /\ LoopOver(a)

\* build("aabb").complete() has returned true after five run() calls that
\* returned Processing: one per symbol and one for the rule (Q1, absent, A0).
C4_Witness ==
  /\ given.movements = RulesV2
  /\ \E a \in Runners :
       /\ Completed(a)
       /\ hist[a].input = <<"a", "a", "b", "b">>
       /\ ret[a]
       /\ hist[a].verdicts =
            <<"Processing", "Processing", "Processing", "Processing",
              "Processing", "Accept">>

---------------------------------------------------------------------------
\* C5, C6, C7

\* C5: two Automata built from the builder with the same word return the
\* same result at their k-th run() call, for every k, and the same value
\* from complete() called after the same number of run() calls, whatever
\* was built and run in between.
C5_Deterministic ==
  \A a1 \in DOMAIN hist, a2 \in DOMAIN hist :
    hist[a1].input = hist[a2].input =>
      /\ \A k \in 1..Len(hist[a1].verdicts) :
           k <= Len(hist[a2].verdicts)
             => hist[a1].verdicts[k] = hist[a2].verdicts[k]
      /\ (a1 \in DOMAIN ret /\ a2 \in DOMAIN ret
            /\ hist[a1].from = hist[a2].from)
           => ret[a1] = ret[a2]

\* Both Automata were built with the same word of one symbol, each has made
\* its run() calls and complete() has returned true for both.
C5_Witness ==
  /\ Completed("r1") /\ Completed("r2")
  /\ hist["r1"].input = hist["r2"].input
  /\ hist["r1"].input # <<>>
  /\ Len(hist["r1"].verdicts) >= 2
  /\ ret["r1"]

\* A run() call on a (by the caller or by complete()) leaves every other
\* Automata as it was.
C6_Step ==
  \A a \in Runners :
    (Run(a) \/ CompleteLoop(a)) =>
      \A o \in Runners \ {a} :
        /\ (o \in DOMAIN automata) <=> (o \in DOMAIN automata')
        /\ o \in DOMAIN automata => automata'[o] = automata[o]
        /\ o \in DOMAIN hist => hist'[o] = hist[o]

\* Every Automata is what it would be, and has returned what it would
\* have, had it been run alone.
C6_Alone ==
  \A a \in DOMAIN hist :
    LET al == Alone(hist[a].input, Len(hist[a].verdicts))
    IN  /\ hist[a].verdicts = al.results
        /\ a \in DOMAIN automata => automata[a] = al.self

\* C6: under every interleaving of the run() calls of two Automata of one
\* builder, a run() on one leaves the other's state, stack and cursor
\* unchanged, and each returns the results it returns when run alone.
C6_Independent == [][C6_Step]_vars /\ []C6_Alone

\* Both Automata have made run() calls, on different words, and hold
\* different stacks.
C6_Witness ==
  /\ pc["r1"] = "idle" /\ pc["r2"] = "idle"
  /\ hist["r1"].input # hist["r2"].input
  /\ Len(hist["r1"].verdicts) >= 2
  /\ Len(hist["r2"].verdicts) >= 1
  /\ automata["r1"].stack # automata["r2"].stack
  /\ automata["r2"].stack # given.stack
  /\ automata["r1"].stack # given.stack

\* C7: the builder keeps the initial state, stack and movements it was
\* constructed with, and every Automata that build(word) returns has the
\* initial state, the initial stack and the whole word.
C7_BuilderNeverMutated ==
  /\ builder = GivenBuilder
  /\ \A a \in DOMAIN hist :
       hist[a].verdicts = <<>> =>
         /\ a \in DOMAIN automata
         /\ automata[a] = [state |-> given.state, stack |-> given.stack,
                           word |-> hist[a].input,
                           movements |-> given.movements]

\* r2 has just been built, from a builder with a stack, after r1 has
\* made run() calls that changed its state and its stack.
C7_Witness ==
  /\ given.stack # <<>>
  /\ "r1" \in DOMAIN automata
  /\ Len(hist["r1"].verdicts) >= 2
  /\ automata["r1"].stack # given.stack
  /\ automata["r1"].state # given.state
  /\ pc["r2"] = "idle"
  /\ hist["r2"].verdicts = <<>>
  /\ hist["r2"].input # <<>>

---------------------------------------------------------------------------
\* C8, C9, C10

\* The last run() call of a found a stack top and no entry for its key.
Stuck(a) ==
  /\ Before(a).stack # <<>>
  /\ LastKey(a) \notin DOMAIN Before(a).movements

\* The last run() call of a found an input symbol and an empty stack.
Starved(a) == Before(a).word # <<>> /\ Before(a).stack = <<>>

\* C8: run() returns NotAccepting exactly when (a) the stack is not empty
\* and the relation has no entry for (state, next symbol or absent, popped
\* top), or (b) an input symbol remains and the stack is empty; otherwise
\* it returns Accept or Processing.
C8_NotAcceptingCases ==
  \A a \in DOMAIN hist :
    HasRun(a) =>
      /\ Last(hist[a].verdicts) = "NotAccepting" <=> (Stuck(a) \/ Starved(a))
      /\ Last(hist[a].verdicts) \in {"Accept", "Processing", "NotAccepting"}

\* A run() call has returned NotAccepting for an input symbol on an empty
\* stack, after a call that returned Processing.
C8_Witness ==
  \E a \in DOMAIN hist :
    /\ HasRun(a)
    /\ Starved(a)
    /\ Len(hist[a].verdicts) >= 2
    /\ hist[a].verdicts[Len(hist[a].verdicts) - 1] = "Processing"
    /\ Last(hist[a].verdicts) = "NotAccepting"

\* C9 as stated: a run() call that finds no entry for its key returns
\* NotAccepting and changes nothing of the Automata but the stack, which
\* loses its top.
C9_AsStated ==
  \A a \in DOMAIN automata :
    (HasRun(a) /\ Stuck(a)) =>
      /\ Last(hist[a].verdicts) = "NotAccepting"
      /\ automata[a] = [Before(a) EXCEPT !.stack = pop(Before(a).stack).stack]

\* C9, amended: a run() call that finds no entry for its key returns
\* NotAccepting and changes nothing of the Automata but the stack, which
\* loses its top, and the input cursor, which loses the symbol looked up
\* when one remained; the current state is not changed.
C9_StuckPopsAndConsumes ==
  \A a \in DOMAIN automata :
    (HasRun(a) /\ Stuck(a)) =>
      /\ Last(hist[a].verdicts) = "NotAccepting"
      /\ automata[a] = [Before(a) EXCEPT
                          !.stack = SubSeq(@, 1, Len(@) - 1),
                          !.word = IF @ = <<>> THEN @ ELSE Tail(@)]

\* A run() call found no entry for a key with an input symbol, on a stack
\* of more than one symbol.
C9_Witness ==
  \E a \in DOMAIN automata :
    /\ HasRun(a)
    /\ Stuck(a)
    /\ Before(a).word # <<>>
    /\ automata[a].stack # <<>>
    /\ Last(hist[a].verdicts) = "NotAccepting"

\* C10: once a run() call on an Automata has returned NotAccepting, every
\* later run() call on it returns NotAccepting.
C10_NotAcceptingTerminal ==
  \A a \in DOMAIN hist :
    \A k \in 1..Len(hist[a].verdicts) :
      (k < Len(hist[a].verdicts) /\ hist[a].verdicts[k] = "NotAccepting")
        => hist[a].verdicts[k + 1] = "NotAccepting"

---------------------------------------------------------------------------
\* C12, C13, C14, C15

Reverse(sq) == [i \in 1..Len(sq) |-> sq[Len(sq) - i + 1]]

\* The last run() call of a found a stack top and an entry for its key;
\* Rule(a) is that entry and Below(a) the stack under the popped top.
Found(a) ==
  /\ HasRun(a)
  /\ Before(a).stack # <<>>
  /\ LastKey(a) \in DOMAIN Before(a).movements
Rule(a) == Before(a).movements[LastKey(a)]
Below(a) == SubSeq(Before(a).stack, 1, Len(Before(a).stack) - 1)

\* C12: after a lookup that returned (next state, [x1, ..., xk]) the stack
\* is the old stack without its popped top followed by xk, ..., x1, so that
\* x1 is the new top and the height is the old height - 1 + k, and the
\* current state is the next state.
C12_ReplacementPushedReversed ==
  \A a \in DOMAIN automata :
    Found(a) =>
      /\ Last(hist[a].verdicts) = "Processing"
      /\ automata[a].state = Rule(a)[1]
      /\ automata[a].stack = Below(a) \o Reverse(Rule(a)[2])
      /\ Len(automata[a].stack) = Len(Before(a).stack) - 1 + Len(Rule(a)[2])
      /\ Rule(a)[2] # <<>> => Last(automata[a].stack) = Rule(a)[2][1]

\* A rule with two different replacement symbols and another next state has
\* been applied.
C12_Witness ==
  \E a \in DOMAIN automata :
    /\ Found(a)
    /\ Len(Rule(a)[2]) = 2
    /\ Rule(a)[2][1] # Rule(a)[2][2]
    /\ Rule(a)[1] # Before(a).state

\* C13 as stated: the replacement is pushed left to right, its first element
\* deepest: the i-th element lies i places above the old stack's rest.
C13_AsStated ==
  \A a \in DOMAIN automata :
    Found(a) =>
      \A i \in 1..Len(Rule(a)[2]) :
        automata[a].stack[Len(Below(a)) + i] = Rule(a)[2][i]

\* C13, amended: the replacement is pushed right to left, so that its first
\* element ends up topmost: the i-th element lies i - 1 places under the
\* top, above all later elements.
C13_FirstElementTopmost ==
  \A a \in DOMAIN automata :
    Found(a) =>
      \A i \in 1..Len(Rule(a)[2]) :
        automata[a].stack[Len(automata[a].stack) - i + 1] = Rule(a)[2][i]

\* The rule (Q0, a, A0) -> (Q0, [A, A0]) of the second test has been
\* applied.
C13_Witness ==
  \E a \in DOMAIN automata :
    /\ Found(a)
    /\ Rule(a) = <<"Q0", <<"A", "A0">>>>
    /\ Last(automata[a].stack) = "A"

\* The last run() call of a found a stack top for which, with the current
\* state, the table has an entry keyed with no input symbol.
AbsentKey(a) == <<Before(a).state, None, Last(Before(a).stack)>>
AbsentRuleMatches(a) ==
  /\ HasRun(a)
  /\ Before(a).stack # <<>>
  /\ AbsentKey(a) \in DOMAIN Before(a).movements

\* The last run() call of a applied the entry at key and consumed no input.
Applied(a, key) ==
  /\ Last(hist[a].verdicts) = "Processing"
  /\ automata[a].state = Before(a).movements[key][1]
  /\ automata[a].stack = Below(a) \o Reverse(Before(a).movements[key][2])
  /\ automata[a].word = Before(a).word

\* C14 as stated: whenever the current state and the stack top match the
\* key of a rule with no input symbol, run() applies it, input left or not,
\* and consumes no input symbol.
C14_AsStated ==
  \A a \in DOMAIN automata :
    AbsentRuleMatches(a) => Applied(a, AbsentKey(a))

\* C14, amended: a rule keyed with no input symbol is applied only by a
\* run() call that finds the input exhausted, and then consumes nothing; a
\* run() call that finds an input symbol consumes it and looks up the key
\* with that symbol only, so that it returns NotAccepting when that key has
\* no entry, whatever rule is keyed with no symbol.
C14_AbsentRuleOnlyAtEndOfInput ==
  \A a \in DOMAIN automata :
    AbsentRuleMatches(a) =>
      IF Before(a).word = <<>>
      THEN Applied(a, AbsentKey(a))
      ELSE /\ LastKey(a) = <<Before(a).state, Some(Head(Before(a).word)),
                              Last(Before(a).stack)>>
           /\ automata[a].word = Tail(Before(a).word)
           /\ Last(hist[a].verdicts) = "Processing" <=> Found(a)
           /\ ~Found(a) =>
                /\ Last(hist[a].verdicts) = "NotAccepting"
                /\ automata[a].state = Before(a).state
                /\ automata[a].stack = Below(a)

\* A run() call found an input symbol, a state and a top for which only the
\* rule with no symbol has an entry, and returned NotAccepting.
C14_Witness ==
  \E a \in DOMAIN automata :
    /\ AbsentRuleMatches(a)
    /\ Before(a).word # <<>>
    /\ ~Found(a)
    /\ Last(hist[a].verdicts) = "NotAccepting"

\* The results of the run() calls complete() has made on a so far.
InComplete(a) ==
  SubSeq(hist[a].verdicts, hist[a].from[1] + 1, Len(hist[a].verdicts))

\* C15: complete() calls run() until the first result other than
\* Processing and no further; it returns true when that result is Accept
\* and false when it is NotAccepting.
C15_CompleteIsRunLoop ==
  \A a \in Runners :
    /\ pc[a] \in {"loop", "done"} =>
         \A k \in 1..Len(InComplete(a)) :
           k < Len(InComplete(a)) => InComplete(a)[k] = "Processing"
    /\ pc[a] = "loop" =>
         r[a] = IF InComplete(a) = <<>> THEN "Processing"
                ELSE Last(InComplete(a))
    /\ pc[a] = "done" =>
         /\ InComplete(a) # <<>>
         /\ Last(InComplete(a)) \in {"Accept", "NotAccepting"}
         /\ ret[a] <=> Last(InComplete(a)) = "Accept"

\* complete() has returned false after run() calls that returned
\* Processing and one that returned NotAccepting.
C15_Witness ==
  \E a \in DOMAIN ret :
    /\ ~ret[a]
    /\ Len(InComplete(a)) >= 2
    /\ Last(InComplete(a)) = "NotAccepting"

---------------------------------------------------------------------------
\* C17, C18, C19, C20

\* w without its first n symbols.
DropFirst(w, n) == IF n >= Len(w) THEN <<>> ELSE SubSeq(w, n + 1, Len(w))

\* C17: a run() call that finds an input symbol advances the cursor by that
\* one symbol, whether the lookup finds a rule, finds none, or the stack is
\* empty, and a run() call that finds none leaves the cursor empty; so after
\* n run() calls the cursor is the word without its first n symbols, and the
\* n-th call has read the n-th symbol of the word and no other.
C17_PeekCommitsCursor ==
  \A a \in DOMAIN automata :
    /\ automata[a].word = DropFirst(hist[a].input, Len(hist[a].verdicts))
    /\ HasRun(a) =>
         /\ automata[a].word = DropFirst(Before(a).word, 1)
         /\ next(Before(a).word).item =
              IF Len(hist[a].verdicts) <= Len(hist[a].input)
              THEN Some(hist[a].input[Len(hist[a].verdicts)])
              ELSE None

\* A run() call found an input symbol and an empty stack, and input is left
\* after it.
C17_Witness ==
  \E a \in DOMAIN automata :
    /\ HasRun(a)
    /\ Starved(a)
    /\ Len(Before(a).word) = 2
    /\ Len(automata[a].word) = 1

\* C18: once a run() call has returned Accept, every later run() call on
\* the Automata returns Accept and leaves the state, the empty stack and the
\* exhausted cursor as they were.
C18_AcceptAbsorbing ==
  \A a \in DOMAIN hist :
    /\ \A k \in 1..Len(hist[a].verdicts) :
         (k < Len(hist[a].verdicts) /\ hist[a].verdicts[k] = "Accept")
           => hist[a].verdicts[k + 1] = "Accept"
    /\ (a \in DOMAIN automata /\ Len(hist[a].verdicts) >= 2
          /\ hist[a].verdicts[Len(hist[a].verdicts) - 1] = "Accept")
         => /\ automata[a] = Before(a)
            /\ Exhausted(automata[a])

\* run() has returned Accept twice in a row, after a call that returned
\* Processing.
C18_Witness ==
  \E a \in DOMAIN automata :
    /\ Len(hist[a].verdicts) >= 3
    /\ hist[a].verdicts[1] = "Processing"
    /\ hist[a].verdicts[Len(hist[a].verdicts) - 1] = "Accept"
    /\ Last(hist[a].verdicts) = "Accept"

\* No entry of the table is keyed with an absent input symbol.
NoAbsentRule(movements) == \A key \in DOMAIN movements : key[2] # None

\* C19: when no rule is keyed with an absent input symbol, complete() makes
\* at most n + 1 run() calls on a word of n symbols: the call number n + 1,
\* if it is made, returns Accept or NotAccepting.
C19_AtMostNPlusOneRuns ==
  \A a \in Runners :
    (pc[a] \in {"loop", "done"} /\ NoAbsentRule(given.movements)) =>
      /\ Len(InComplete(a)) <= Len(hist[a].input) + 1
      /\ Len(InComplete(a)) = Len(hist[a].input) + 1
           => Last(InComplete(a)) # "Processing"

\* complete() has returned after exactly n + 1 = 3 run() calls, with a table
\* that has rules and none keyed with an absent symbol.
C19_Witness ==
  \E a \in DOMAIN ret :
    /\ NoAbsentRule(given.movements)
    /\ given.movements # <<>>
    /\ Len(hist[a].input) = 2
    /\ hist[a].from = Some(0)
    /\ Len(InComplete(a)) = 3

\* The stack under the top the last run() call of a popped, if it popped.
Under(a) == IF Before(a).stack = <<>> THEN <<>> ELSE Below(a)

\* C20: a run() call leaves the symbols under the popped top as they were
\* and in their order, and changes the current state only when it returns
\* Processing.
C20_OnlyTopAndStateOnSuccess ==
  \A a \in DOMAIN automata :
    HasRun(a) =>
      /\ Len(automata[a].stack) >= Len(Under(a))
      /\ SubSeq(automata[a].stack, 1, Len(Under(a))) = Under(a)
      /\ Last(hist[a].verdicts) # "Processing"
           => automata[a].state = Before(a).state

\* A run() call in state Q1 on a stack of two symbols found no rule: it
\* returned NotAccepting, the lower symbol is still there.
C20_Witness ==
  \E a \in DOMAIN automata :
    /\ HasRun(a)
    /\ Len(Before(a).stack) >= 2
    /\ Before(a).state = "Q1"
    /\ Last(hist[a].verdicts) = "NotAccepting"
    /\ automata[a].stack # <<>>

---------------------------------------------------------------------------
\* C11

\* Stack heights above MaxStack are not explored in SpecLive.
MaxStack == MaxInit + MaxLen + 1

\* The loop of complete() that forgets the result: while r == Processing
\* { self.run(); }.
CompleteLoopLive_DropResult(a) ==
  /\ pc[a] = "loop"
  /\ r[a] = "Processing"
  /\ LET o == run(automata[a])
     IN  /\ Len(o.self.stack) <= MaxStack
         /\ automata' = [automata EXCEPT ![a] = o.self]
  /\ UNCHANGED <<stk, log, builder, pc, r, ret, given, hist>>

\* while r == Processing { r = self.run() }, with no bound on the number of
\* run() calls and no record of their results.
CompleteLoopLive(a) ==
  /\ pc[a] = "loop"
  /\ r[a] = "Processing"
  /\ LET o == run(automata[a])
     IN  /\ Len(o.self.stack) <= MaxStack
         /\ automata' = [automata EXCEPT ![a] = o.self]
         /\ r' = [r EXCEPT ![a] = o.result]
  /\ UNCHANGED <<stk, log, builder, pc, ret, given, hist>>

InitLive == InitWith({RulesV1, RulesV2, RulesSpin, RulesEmpty})

\* build(word).complete() on one Automata at a time.
NextLive ==
  \/ \E w \in SeqsUpTo(VocabElement, MaxLen) : Build("r1", w)
  \/ CompleteCall("r1")
  \/ CompleteLoopLive("r1")
  \/ CompleteReturn("r1")

\* complete() is a blocking loop: once called it goes on making run() calls
\* and returns when the loop ends.
SpecLive ==
  /\ InitLive
  /\ [][NextLive]_vars
  /\ WF_vars(CompleteLoopLive("r1"))
  /\ WF_vars(CompleteReturn("r1"))

\* The next run() call of complete() would take the stack above MaxStack.
Overflows(a) ==
  /\ pc[a] = "loop"
  /\ r[a] = "Processing"
  /\ Len(run(automata[a]).self.stack) > MaxStack

\* Every rule keyed with an absent input symbol has an empty replacement.
AbsentRulesOnlyPop(movements) ==
  \A key \in DOMAIN movements : key[2] = None => movements[key][2] = <<>>

\* C11 as stated: complete(), once called on a finite word, returns on every
\* run in which the stack height stays bounded (here: does not pass
\* MaxStack).
C11_AsStated ==
  (pc["r1"] = "loop") ~> (pc["r1"] = "done" \/ Overflows("r1"))

\* C11, amended: complete(), once called on a finite word, returns when
\* every rule keyed with an absent input symbol has an empty replacement
\* (each run() call after the end of the input then shrinks the stack).
C11_TerminatesWhenAbsentRulesOnlyPop ==
  (pc["r1"] = "loop" /\ AbsentRulesOnlyPop(given.movements))
    ~> (pc["r1"] = "done")

\* complete() has returned true with the second test's table, whose
\* absent-symbol rule pops A0.
C11_Witness ==
  /\ pc["r1"] = "done"
  /\ given.movements = RulesV2
  /\ AbsentRulesOnlyPop(given.movements)
  /\ hist["r1"].input = <<"a", "b">>
  /\ ret["r1"]

---------------------------------------------------------------------------
\* C16

\* let mut stk = Stack::from(vec).
MakeStack(vec) ==
  /\ stk' = StackFrom(vec)
  /\ log' = [made |-> vec, ops |-> <<>>]
  /\ UNCHANGED <<builder, automata, pc, r, ret, given, hist>>

\* stk.push(e)
StackPush(e) ==
  /\ Len(log.ops) < MaxOps
  /\ stk' = push(stk, e)
  /\ log' = [log EXCEPT !.ops = Append(@, [op |-> "push", arg |-> Some(e),
                                           ret |-> None,
                                           left |-> push(stk, e)])]
  /\ UNCHANGED <<builder, automata, pc, r, ret, given, hist>>

\* stk.pop()
StackPop ==
  /\ Len(log.ops) < MaxOps
  /\ stk' = pop(stk).stack
  /\ log' = [log EXCEPT !.ops = Append(@, [op |-> "pop", arg |-> None,
                                           ret |-> pop(stk).item,
                                           left |-> pop(stk).stack])]
  /\ UNCHANGED <<builder, automata, pc, r, ret, given, hist>>

\* No builder is used: the one there is has an empty stack and table.
InitStack ==
  /\ builder = AutomataBuilderNew("Q0", <<>>, RulesEmpty)
  /\ given = [state |-> "Q0", stack |-> <<>>, movements |-> RulesEmpty]
  /\ automata = <<>>
  /\ pc = [a \in Runners |-> "none"]
  /\ r = <<>>
  /\ ret = <<>>
  /\ hist = <<>>
  /\ stk = StackFrom(<<>>)
  /\ log = [made |-> <<>>, ops |-> <<>>]

NextStack ==
  \/ \E vec \in SeqsUpTo(StackData, MaxDepth) : MakeStack(vec)
  \/ \E e \in StackData : StackPush(e)
  \/ StackPop

SpecStack == InitStack /\ [][NextStack]_vars

\* The stack the i-th call of the log found.
FoundStack(i) == IF i = 1 THEN log.made ELSE log.ops[i - 1].left

\* C16: the Stack is last-in-first-out. pop() removes and returns the top:
\* a pop() that follows push(x) returns x and leaves the stack as it was
\* before the push; pop() on an empty stack returns none and leaves it
\* empty; a Stack made from a sequence has the sequence's last element as
\* its top, so that the first pops return the sequence in reverse, and none
\* after it.
C16_StackIsLifo ==
  /\ stk = FoundStack(Len(log.ops) + 1)
  /\ \A i \in 1..Len(log.ops) :
       /\ log.ops[i].op = "pop" =>
            /\ FoundStack(i) = <<>> =>
                 (log.ops[i].ret = None /\ log.ops[i].left = <<>>)
            /\ FoundStack(i) # <<>> =>
                 /\ log.ops[i].ret # None
                 /\ Len(log.ops[i].left) = Len(FoundStack(i)) - 1
            /\ (i > 1 /\ log.ops[i - 1].op = "push") =>
                 /\ log.ops[i].ret = log.ops[i - 1].arg
                 /\ log.ops[i].left = FoundStack(i - 1)
       /\ (\A k \in 1..i : log.ops[k].op = "pop") =>
            log.ops[i].ret =
              IF i <= Len(log.made)
              THEN Some(log.made[Len(log.made) - i + 1])
              ELSE None

\* A Stack made from [A0, A] has returned A, A0 and none; A0 was then
\* pushed and popped.
C16_Witness ==
  /\ log.made = <<"A0", "A">>
  /\ Len(log.ops) = 5
  /\ log.ops[1].ret = Some("A")
  /\ log.ops[2].ret = Some("A0")
  /\ log.ops[3].op = "pop" /\ log.ops[3].ret = None
  /\ log.ops[4].op = "push" /\ log.ops[4].arg = Some("A0")
  /\ log.ops[5].op = "pop" /\ log.ops[5].ret = Some("A0")
  /\ stk = <<>>

=============================================================================
